---- MODULE Spec2Model ----
(***************************************************************************)
(* Model of the reading journal (src/app.py): the journal held in the     *)
(* session state, the JSON document on disk, the active book pointer and  *)
(* the handlers of the page (add book, select book, page counters, add    *)
(* note, word lookup).  One action is one user interaction: the widget    *)
(* callback (if any) followed by the complete run of the script.          *)
(***************************************************************************)
EXTENDS Integers, Sequences, FiniteSets, TLC

VARIABLES journal, current_book_title, disk, view

vars == <<journal, current_book_title, disk, view>>

(* ---------------- bounds and input sets ---------------- *)
MaxNotes == 2

DefaultTotalPages == 100

None == "<None>"
TitleInputs == {"", "Dune", "Emma"}
AuthorInputs == {"", "Herbert"}
NoteInputs == {"", "Great worldbuilding"}
WordInputs == {"", "spice"}
Clock == {0, 1}
PageInputs == {-1, 0, 1, DefaultTotalPages}
NoChoice == 0

(* ---------------- Python values ---------------- *)
\* truthiness of a str-or-None value
Truthy(x) == x # None /\ x # ""

\* an insertion-ordered dict is a sequence of <<key, value>> pairs
Keys(d) == [i \in 1..Len(d) |-> d[i][1]]
HasKey(d, k) == \E i \in 1..Len(d) : d[i][1] = k
IndexOf(s, x) == CHOOSE i \in 1..Len(s) : s[i] = x
Get(d, k) == d[IndexOf(Keys(d), k)][2]
\* mutant of Put: the assignment reaches every entry of the dict
Put_AllKeys(d, k, v) ==
    IF HasKey(d, k)
    THEN [i \in 1..Len(d) |-> <<d[i][1], v>>]
    ELSE Append(d, <<k, v>>)
Put(d, k, v) ==
    IF HasKey(d, k)
    THEN [i \in 1..Len(d) |-> IF d[i][1] = k THEN <<k, v>> ELSE d[i]]
    ELSE Append(d, <<k, v>>)
InSeq(s, x) == \E i \in 1..Len(s) : s[i] = x
IsPrefix(s, t) == Len(s) <= Len(t) /\ \A i \in 1..Len(s) : s[i] = t[i]

(* ---------------- JSON documents ---------------- *)
JNum(n) == [t |-> "number", v |-> n]
JStr(s) == [t |-> "string", v |-> s]
JArr(s) == [t |-> "array", v |-> s]
JObj(m) == [t |-> "object", v |-> m]
Member(o, k) == Get(o.v, k)

DumpNote(n) == JObj(<< <<"text", JStr(n.text)>>, <<"ts", JStr(n.ts)>> >>)
\* mutant of DumpBook: the two page counters are written under each other's key
DumpBook_SwapPages(b) ==
    JObj(<< <<"author", JStr(b.author)>>,
            <<"current_page", JNum(b.total_pages)>>,
            <<"total_pages", JNum(b.current_page)>>,
            <<"notes", JArr([i \in 1..Len(b.notes) |-> DumpNote(b.notes[i])])>> >>)
DumpBook(b) ==
    JObj(<< <<"author", JStr(b.author)>>,
            <<"current_page", JNum(b.current_page)>>,
            <<"total_pages", JNum(b.total_pages)>>,
            <<"notes", JArr([i \in 1..Len(b.notes) |-> DumpNote(b.notes[i])])>> >>)
json_dump(data) ==
    JObj(<< <<"books",
              JObj([i \in 1..Len(data.books) |->
                      <<data.books[i][1], DumpBook(data.books[i][2])>>])>> >>)

LoadNote(o) == [text |-> Member(o, "text").v, ts |-> Member(o, "ts").v]
LoadBook(o) ==
    [author |-> Member(o, "author").v,
     current_page |-> Member(o, "current_page").v,
     total_pages |-> Member(o, "total_pages").v,
     notes |-> [i \in 1..Len(Member(o, "notes").v) |->
                  LoadNote(Member(o, "notes").v[i])]]
json_load(doc) ==
    [books |-> [i \in 1..Len(Member(doc, "books").v) |->
                  <<Member(doc, "books").v[i][1],
                    LoadBook(Member(doc, "books").v[i][2])>>]]

(* ---------------- persistence ---------------- *)
NoFile == [exists |-> FALSE, content |-> JObj(<<>>)]

load_data(file) ==
    IF file.exists THEN json_load(file.content) ELSE [books |-> <<>>]

save_data(data) == [exists |-> TRUE, content |-> json_dump(data)]

(* ---------------- session state initialisation ---------------- *)
FirstTitle(data) ==
    IF Keys(data.books) # <<>> THEN Keys(data.books)[1] ELSE None

(* ---------------- sidebar: book selectbox ---------------- *)
\* mutant of current_index: an unknown title falls back to the last option
current_index_Last(book_titles, cur) ==
    IF InSeq(book_titles, cur) THEN IndexOf(book_titles, cur) ELSE Len(book_titles)
current_index(book_titles, cur) ==
    IF InSeq(book_titles, cur) THEN IndexOf(book_titles, cur) ELSE 1

selectbox(options, index, choice) ==
    IF choice = NoChoice THEN options[index] ELSE options[choice]

\* lines 51-60 of one script run; choice is the option the user picked
SelectStep(data, cur, choice) ==
    IF Keys(data.books) # <<>>
    THEN selectbox(Keys(data.books), current_index(Keys(data.books), cur), choice)
    ELSE cur

(* ---------------- widgets ---------------- *)
\* mutant of number_input: min_value is not enforced
number_input_NoMin(min_value, v) == TRUE
number_input(min_value, v) == v >= min_value

strftime(now) ==
    CASE now = 0 -> "January 01, 2025 at 12:00 AM"
      [] now = 1 -> "March 04, 2025 at 03:15 PM"

\* mutant of NewBook: the new book starts on page 1
NewBook_StartsAtOne(author) ==
    [author |-> author, current_page |-> 1,
     total_pages |-> DefaultTotalPages, notes |-> <<>>]
NewBook(author) ==
    [author |-> author, current_page |-> 0,
     total_pages |-> DefaultTotalPages, notes |-> <<>>]

\* the book behind st.session_state.current_book_title
current_book(data, cur) == Get(data.books, cur)

\* callback of the two number inputs, run before the script reruns
update_book_details(data) == save_data(data)

Init ==
    /\ disk = NoFile
    /\ journal = load_data(NoFile)
    /\ current_book_title = FirstTitle(load_data(NoFile))
    /\ view = "plain"

\* a new browser session: the session state is rebuilt from the file
NewSession ==
    /\ journal' = load_data(disk)
    /\ current_book_title' =
          SelectStep(load_data(disk), FirstTitle(load_data(disk)), NoChoice)
    /\ view' = "plain"
    /\ UNCHANGED disk

\* the user picks an option of the sidebar selectbox
SelectBook(choice) ==
    /\ Keys(journal.books) # <<>>
    /\ choice \in 1..Len(journal.books)
    /\ current_book_title' = SelectStep(journal, current_book_title, choice)
    /\ view' = "plain"
    /\ UNCHANGED <<journal, disk>>

\* mutant of AddBook: the title is not looked up before the assignment
AddBook_NoDuplicateCheck(new_book_title, new_book_author) ==
    IF new_book_title # "" /\ new_book_author # ""
    THEN /\ journal' = [books |-> Put(journal.books, new_book_title,
                                      NewBook(new_book_author))]
         /\ disk' = save_data(journal')
         /\ current_book_title' = SelectStep(journal', new_book_title, NoChoice)
         /\ view' = "plain"
    ELSE /\ view' = "error_missing"
         /\ current_book_title' = SelectStep(journal, current_book_title, NoChoice)
         /\ UNCHANGED <<journal, disk>>

\* the "Add Book" button with the two text inputs
AddBook(new_book_title, new_book_author) ==
    IF new_book_title # "" /\ new_book_author # ""
    THEN IF ~HasKey(journal.books, new_book_title)
         THEN /\ journal' = [books |-> Put(journal.books, new_book_title,
                                           NewBook(new_book_author))]
              /\ disk' = save_data(journal')
              \* st.rerun(): the script runs again with the new title
              /\ current_book_title' = SelectStep(journal', new_book_title, NoChoice)
              /\ view' = "plain"
         ELSE /\ view' = "warning_exists"
              /\ current_book_title' =
                    SelectStep(journal, current_book_title, NoChoice)
              /\ UNCHANGED <<journal, disk>>
    ELSE /\ view' = "error_missing"
         /\ current_book_title' = SelectStep(journal, current_book_title, NoChoice)
         /\ UNCHANGED <<journal, disk>>

\* the user edits the "Current Page" number input
SetCurrentPage(v) ==
    /\ Truthy(current_book_title)
    /\ number_input(0, v)
    /\ v # current_book(journal, current_book_title).current_page
    /\ disk' = update_book_details(journal)
    /\ journal' = [books |-> Put(journal.books, current_book_title,
                     [current_book(journal, current_book_title)
                        EXCEPT !.current_page = v])]
    /\ view' = "plain"
    /\ UNCHANGED current_book_title

\* the user edits the "Total Pages" number input
SetTotalPages(v) ==
    /\ Truthy(current_book_title)
    /\ number_input(1, v)
    /\ v # current_book(journal, current_book_title).total_pages
    /\ disk' = update_book_details(journal)
    /\ journal' = [books |-> Put(journal.books, current_book_title,
                     [current_book(journal, current_book_title)
                        EXCEPT !.total_pages = v])]
    /\ view' = "plain"
    /\ UNCHANGED current_book_title

RECURSIVE SumNotes(_, _)
SumNotes(books, i) ==
    IF i = 0 THEN 0 ELSE Len(books[i][2].notes) + SumNotes(books, i - 1)
\* number of notes in the whole journal
NoteCount(data) == SumNotes(data.books, Len(data.books))

\* mutant of AppendNote: the note is inserted at the front
AppendNote_Prepend(notes, note_text, timestamp) ==
    <<[text |-> note_text, ts |-> timestamp]>> \o notes

\* list.append of a note dict
AppendNote(notes, note_text, timestamp) ==
    Append(notes, [text |-> note_text, ts |-> timestamp])

\* mutant of AddNote: the text is not checked before the append
AddNote_AcceptsEmpty(note_text, now) ==
    /\ Truthy(current_book_title)
    /\ NoteCount(journal) < MaxNotes
    /\ journal' = [books |-> Put(journal.books, current_book_title,
                     [current_book(journal, current_book_title)
                        EXCEPT !.notes = AppendNote(@, note_text, strftime(now))])]
    /\ disk' = save_data(journal')
    /\ view' = "success_note"
    /\ UNCHANGED current_book_title

\* the "Add Note to Journal" button with the text area
AddNote(note_text, now) ==
    /\ Truthy(current_book_title)
    /\ NoteCount(journal) < MaxNotes
    /\ IF note_text # ""
       THEN /\ journal' = [books |-> Put(journal.books, current_book_title,
                            [current_book(journal, current_book_title)
                               EXCEPT !.notes = AppendNote(@, note_text, strftime(now))])]
            /\ disk' = save_data(journal')
            /\ view' = "success_note"
       ELSE /\ view' = "warning_note"
            /\ UNCHANGED <<journal, disk>>
    /\ UNCHANGED current_book_title

\* outcomes of requests.get: a response with a status code, or an exception
Responses ==
    {[raised |-> FALSE, status_code |-> c] : c \in {200, 404, 500}}
        \cup {[raised |-> TRUE, status_code |-> 0]}

\* the "Get Definition" button
GetDefinition(word_to_lookup, response) ==
    /\ Truthy(current_book_title)
    /\ word_to_lookup # ""
    /\ view' = IF response.raised THEN "exception"
               ELSE IF response.status_code = 200 THEN "definitions"
               ELSE "error_not_found"
    /\ UNCHANGED <<journal, current_book_title, disk>>

Next ==
    \/ NewSession
    \/ \E choice \in 1..Cardinality(TitleInputs) : SelectBook(choice)
    \/ \E t \in TitleInputs, a \in AuthorInputs : AddBook(t, a)
    \/ \E v \in PageInputs : SetCurrentPage(v)
    \/ \E v \in PageInputs : SetTotalPages(v)
    \/ \E x \in NoteInputs, now \in Clock : AddNote(x, now)
    \/ \E w \in WordInputs, r \in Responses : GetDefinition(w, r)

Spec == Init /\ [][Next]_vars

(* ======================= properties ======================= *)
Titles(data) == {data.books[i][1] : i \in 1..Len(data.books)}
Book(data, title) == Get(data.books, title)

\* C1: once the handling of any user action has completed, the document in
\* durable storage equals the in-memory journal (every mutation, page-counter
\* edits included, has been written).
C1_StorageEqualsJournal == load_data(disk) = journal

\* C2: add_book with a non-empty title not yet in the journal and a non-empty
\* author adds exactly one book under that title, with the given author,
\* current_page 0, total_pages 100 and no notes; the number of books grows by
\* exactly one and the books already there are kept.
C2_AddBookAddsOne ==
    [][\A t \in TitleInputs, a \in AuthorInputs :
         (t # "" /\ a # "" /\ t \notin Titles(journal) /\ AddBook(t, a)) =>
            /\ Len(journal'.books) = Len(journal.books) + 1
            /\ Cardinality({i \in 1..Len(journal'.books) : journal'.books[i][1] = t}) = 1
            /\ Book(journal', t) = [author |-> a, current_page |-> 0,
                                    total_pages |-> 100, notes |-> <<>>]
            /\ \A k \in Titles(journal) : Book(journal', k) = Book(journal, k)]_vars

C2_Witness ==
    /\ Len(journal.books) = 2
    /\ current_book_title = "Emma"
    /\ journal.books[2] = <<"Emma", [author |-> "Herbert", current_page |-> 0,
                                     total_pages |-> 100, notes |-> <<>>]>>
    /\ load_data(disk) = journal

\* C3: a rejected add_book (title already present, or empty title or author)
\* leaves the journal unchanged and writes nothing to storage.
C3_RejectedAddBookNoChange ==
    [][\A t \in TitleInputs, a \in AuthorInputs :
         ((t = "" \/ a = "" \/ t \in Titles(journal)) /\ AddBook(t, a)) =>
            (journal' = journal /\ disk' = disk)]_vars

C3_Witness ==
    /\ view = "warning_exists"
    /\ Len(journal.books) = 1
    /\ journal.books[1][2].current_page = 1
    /\ journal.books[1][2].notes # <<>>
    /\ load_data(disk) # journal

\* C4: add_note with empty text leaves the notes of the active book unchanged;
\* with non-empty text it appends exactly one note at the end, whose text is
\* the input and whose timestamp is non-empty.
C4_AddNoteAppendsOne ==
    [][\A x \in NoteInputs, now \in Clock :
         AddNote(x, now) =>
            LET old == Book(journal, current_book_title).notes
                new == Book(journal', current_book_title).notes
            IN  IF x = ""
                THEN new = old
                ELSE /\ Len(new) = Len(old) + 1
                     /\ SubSeq(new, 1, Len(old)) = old
                     /\ new[Len(new)].text = x
                     /\ new[Len(new)].ts # ""]_vars

C4_Witness ==
    /\ view = "success_note"
    /\ Len(Book(journal, current_book_title).notes) = 2
    /\ Book(journal, current_book_title).notes[2].text = "Great worldbuilding"

\* C5: notes are append-only: in every step, every book of the journal is
\* still there afterwards and its notes before the step are a prefix of its
\* notes after the step.
C5_NotesAppendOnly ==
    [][\A k \in Titles(journal) :
         /\ k \in Titles(journal')
         /\ IsPrefix(Book(journal, k).notes, Book(journal', k).notes)]_vars

C5_Witness ==
    /\ Len(journal.books) = 2
    /\ Len(journal.books[1][2].notes) = 2
    /\ journal.books[1][2].notes[1] # journal.books[1][2].notes[2]
    /\ view = "plain"

\* C6: every book of every reachable journal has total_pages >= 1 and
\* current_page >= 0 (current_page may exceed total_pages).
C6_PageBounds ==
    \A k \in Titles(journal) :
        Book(journal, k).total_pages >= 1 /\ Book(journal, k).current_page >= 0

C6_Witness ==
    \E k \in Titles(journal) :
        Book(journal, k).current_page > Book(journal, k).total_pages

\* C7: the active book pointer is None exactly when the journal has no books;
\* when the journal has books the pointer is one of its titles, and resolving
\* the selection from a pointer that is not among the titles gives the first
\* title.
C7_ActivePointer ==
    /\ (current_book_title = None) <=> (journal.books = <<>>)
    /\ journal.books # <<>> => current_book_title \in Titles(journal)
    /\ \A cur \in TitleInputs \cup {None, "Gone"} :
          (journal.books # <<>> /\ cur \notin Titles(journal)) =>
              SelectStep(journal, cur, NoChoice) = Keys(journal.books)[1]

C7_Witness ==
    /\ Len(journal.books) = 2
    /\ current_book_title = Keys(journal.books)[2]
    /\ view = "warning_exists"

\* C8: a dictionary lookup that does not succeed (404, 5xx or a network
\* failure) ends in the generic not-found message.
C8_FailedLookupNotFound ==
    [][\A w \in WordInputs, r \in Responses :
         (GetDefinition(w, r) /\ (r.raised \/ r.status_code # 200)) =>
            view' = "error_not_found"]_vars

\* C9: save followed by load gives back the journal, for every reachable
\* journal; load with no stored document gives the empty journal.
C9_RoundTrip ==
    /\ load_data(save_data(journal)) = journal
    /\ load_data(NoFile) = [books |-> <<>>]

C9_Witness ==
    /\ Len(journal.books) = 2
    /\ \E i \in 1..2 :
          /\ Len(journal.books[i][2].notes) = 2
          /\ journal.books[i][2].current_page = 1
          /\ journal.books[i][2].total_pages = 1
    /\ disk = save_data(journal)

\* C10: set_progress and add_note touch only the active book: the titles and
\* every other book are unchanged; set_progress keeps the active book's author
\* and notes, add_note keeps its author, current_page and total_pages.
C10_Frame ==
    [][/\ \A v \in PageInputs :
            (SetCurrentPage(v) \/ SetTotalPages(v)) =>
               /\ Keys(journal'.books) = Keys(journal.books)
               /\ \A k \in Titles(journal) \ {current_book_title} :
                     Book(journal', k) = Book(journal, k)
               /\ Book(journal', current_book_title).author =
                     Book(journal, current_book_title).author
               /\ Book(journal', current_book_title).notes =
                     Book(journal, current_book_title).notes
       /\ \A x \in NoteInputs, now \in Clock :
            AddNote(x, now) =>
               /\ Keys(journal'.books) = Keys(journal.books)
               /\ \A k \in Titles(journal) \ {current_book_title} :
                     Book(journal', k) = Book(journal, k)
               /\ Book(journal', current_book_title).author =
                     Book(journal, current_book_title).author
               /\ Book(journal', current_book_title).current_page =
                     Book(journal, current_book_title).current_page
               /\ Book(journal', current_book_title).total_pages =
                     Book(journal, current_book_title).total_pages]_vars

C10_Witness ==
    /\ Len(journal.books) = 2
    /\ current_book_title = Keys(journal.books)[1]
    /\ journal.books[1][2].current_page = 1
    /\ journal.books[1][2].notes # <<>>
    /\ journal.books[2][2] = [author |-> "Herbert", current_page |-> 100,
                              total_pages |-> 1, notes |-> <<>>]
====
